---- MODULE Spec2Model ----
(***************************************************************************)
(* TaskForge (src/Game.py): the task / progression state machine.          *)
(*                                                                         *)
(* State: the module globals player, tasks and history (aliases of the     *)
(* three values of the state mapping), the save file, and the outcome of   *)
(* the last operation (the message the operation prints).                  *)
(* Operations: add_task, edit_task, delete_task, complete_task_by_id.      *)
(* datetime.now() and the two random draws of a completion are inputs of   *)
(* the operation that reads them.  aliased holds the keys of the state     *)
(* mapping whose value is the very object default_state holds (load_state  *)
(* copies default_state shallowly); warnings counts the persistence        *)
(* warnings save_state has printed.                                        *)
(***************************************************************************)
EXTENDS Integers, Sequences, FiniteSets, TLC

VARIABLES player, tasks, history, file, writable, lastOp, maxIssued, ops,
          aliased, warnings

vars == <<player, tasks, history, file, writable, lastOp, maxIssued, ops,
          aliased, warnings>>

(***************************************************************************)
(* Bounds of the model.                                                    *)
(***************************************************************************)
\* most tasks in the registry at once
MaxTasks == 2
\* most completions recorded in the history
MaxHist == 3
\* most operations in one session
MaxOps == 4
\* most operations in one session of the narrower specifications
MaxOpsDeep == 5
\* the clock readings datetime.now() can return are 0..MaxTime
MaxTime == 4

(***************************************************************************)
(* Values.                                                                 *)
(***************************************************************************)
\* clock readings per calendar day: a timestamp carries more than its date
TicksPerDay == 2

Times == 0..MaxTime

\* A stored date: None, an ISO timestamp (the clock reading it was made
\* from), or text that datetime.fromisoformat rejects.
NoDate == [tag |-> "None", ts |-> 0]

BadDate == [tag |-> "bad", ts |-> 0]

\* datetime.now().isoformat()
IsoFormat(now) == [tag |-> "iso", ts |-> now]

\* datetime.fromisoformat(s).date(): the calendar day of a timestamp
DateOf(d) == d.ts \div TicksPerDay

\* date.today() for a clock reading
Today(now) == now \div TicksPerDay

Titles == {"", "a"}

XPVals == {320, 450}

\* the task ids an operation is called with
IdArgs == 0..MaxTasks

badge_pool == <<"focus_warrior", "deadline_crusher", "consistency_pro",
                "task_master", "productivity_ninja">>

\* default_state["player"]
DefaultPlayer ==
    [name |-> "Vicky", xp |-> 0, level |-> 1, badges |-> <<>>, streak |-> 0,
     last_active_date |-> NoDate]

\* the state mapping {"player", "tasks", "history"}
State(p, ts, h) == [player |-> p, tasks |-> ts, history |-> h]

default_state == State(DefaultPlayer, <<>>, <<>>)

(***************************************************************************)
(* Persistence.                                                            *)
(***************************************************************************)
\* The save file is <<>> when absent, else <<c>> with c.valid telling whether
\* json.load accepts the text and c.data the mapping it then returns.
\* JSON has null for None and strings for the stored timestamps; numbers,
\* booleans, strings and lists are written and read back as they are.
JsonDate(d) ==
    IF d.tag = "None" THEN [json |-> "null", tag |-> "", ts |-> 0]
    ELSE [json |-> "string", tag |-> d.tag, ts |-> d.ts]

DateOfJson(j) ==
    IF j.json = "null" THEN NoDate ELSE [tag |-> j.tag, ts |-> j.ts]

MapSeq(F(_), q) == [i \in 1..Len(q) |-> F(q[i])]

JsonPlayer(p) == [p EXCEPT !.last_active_date = JsonDate(@)]

PlayerOfJson(j) == [j EXCEPT !.last_active_date = DateOfJson(@)]

JsonTask(t) ==
    [t EXCEPT !.created_at = JsonDate(@), !.completed_at = JsonDate(@)]

TaskOfJson(j) ==
    [j EXCEPT !.created_at = DateOfJson(@), !.completed_at = DateOfJson(@)]

JsonEntry(h) == [h EXCEPT !.when = JsonDate(@)]

EntryOfJson(j) == [j EXCEPT !.when = DateOfJson(@)]

\* the JSON value of the value st holds under top-level key k
JsonValue(k, v) ==
    IF k = "player" THEN JsonPlayer(v)
    ELSE IF k = "tasks" THEN MapSeq(JsonTask, v)
    ELSE MapSeq(JsonEntry, v)

\* the value json.load builds from the JSON value under top-level key k
ValueOfJson(k, j) ==
    IF k = "player" THEN PlayerOfJson(j)
    ELSE IF k = "tasks" THEN MapSeq(TaskOfJson, j)
    ELSE MapSeq(EntryOfJson, j)

\* json.dump(state, f): the text of the whole state mapping
Dump(st) == [valid |-> TRUE, data |-> [k \in DOMAIN st |-> JsonValue(k, st[k])]]

\* save_state: open(SAVE_FILE, "w") raises where writing is not permitted
\* (w false); the exception is caught and the file is left as it was.
SaveState(f, w, st) == IF w THEN <<Dump(st)>> ELSE f

\* what save_state returns
SaveOk(w) == w

\* the "[Warning] Saving disabled or not permitted here" lines one call of
\* save_state prints
SaveWarnings(w) == IF SaveOk(w) THEN 0 ELSE 1

\* a loader that overwrites every top-level key with its default
LoadFromOverwriting(f, d) == [k \in DOMAIN d |-> d[k]]

\* load_state, with d the value default_state holds when it is called:
\* (a shallow copy of) d for an absent or unreadable file, else the mapping
\* read, each missing top-level key set to d's value for it.
LoadFrom(f, d) ==
    IF f = <<>> THEN d
    ELSE IF ~f[1].valid THEN d
    ELSE [k \in DOMAIN d |->
            IF k \in DOMAIN f[1].data THEN ValueOfJson(k, f[1].data[k])
            ELSE d[k]]

\* the top-level keys whose value load_state takes from default_state itself
\* rather than from the file: the loaded state shares these objects with it
SharedKeys(f) ==
    IF f = <<>> THEN DOMAIN default_state
    ELSE IF ~f[1].valid THEN DOMAIN default_state
    ELSE DOMAIN default_state \ DOMAIN f[1].data

\* load_state at import, when default_state is still as written in the source
LoadState(f) == LoadFrom(f, default_state)

(***************************************************************************)
(* Task registry.                                                          *)
(***************************************************************************)
Max(S) == CHOOSE x \in S : \A y \in S : y <= x

Min(S) == CHOOSE x \in S : \A y \in S : x <= y

\* max([t.get("id", 0) for t in tasks], default=0) + 1
next_task_id(ts) ==
    IF Len(ts) = 0 THEN 1 ELSE Max({ts[i].id : i \in 1..Len(ts)}) + 1

\* next((x for x in tasks if x["id"] == task_id), None): the index of the
\* first task with that id, 0 for None
FindTask(ts, task_id) ==
    LET S == {i \in 1..Len(ts) : ts[i].id = task_id}
    IN  IF S = {} THEN 0 ELSE Min(S)

NewTask(ts, title, xp, priority, tags, notes, now) ==
    [id |-> next_task_id(ts), title |-> title, xp |-> xp,
     priority |-> priority, tags |-> tags, notes |-> notes, done |-> FALSE,
     created_at |-> IsoFormat(now), completed_at |-> NoDate]

Op(op, id, outcome, count) ==
    [op |-> op, id |-> id, outcome |-> outcome, count |-> count]

add_task(title, xp, now) ==
    /\ Len(tasks) < MaxTasks
    /\ LET task == NewTask(tasks, title, xp, "medium", <<>>, "", now)
       IN  /\ tasks' = Append(tasks, task)
           /\ file' = SaveState(file, writable, State(player, tasks', history))
           /\ lastOp' = Op("add", task.id, "ok", 0)
           /\ maxIssued' = IF task.id > maxIssued THEN task.id ELSE maxIssued
    /\ warnings' = warnings + SaveWarnings(writable)
    /\ UNCHANGED <<player, history, writable, aliased>>

\* for k, v in fields.items(): if k in t and v is not None: t[k] = v
\* fields is the sequence of the keyword arguments, in the order given; a
\* field is [k |-> name, none |-> whether the value is None, v |-> value].
RECURSIVE ApplyFields(_, _)
ApplyFields(t, fields) ==
    IF fields = <<>> THEN t
    ELSE LET f == Head(fields)
             u == IF f.k \in DOMAIN t /\ ~f.none
                  THEN [t EXCEPT ![f.k] = f.v] ELSE t
         IN  ApplyFields(u, Tail(fields))

edit_task(task_id, fields) ==
    /\ LET i == FindTask(tasks, task_id)
       IN  IF i = 0
           THEN /\ lastOp' = Op("edit", task_id, "NotFound", 0)
                /\ UNCHANGED <<tasks, file, warnings>>
           ELSE /\ tasks' = [tasks EXCEPT ![i] = ApplyFields(tasks[i], fields)]
                /\ file' = SaveState(file, writable, State(player, tasks', history))
                /\ lastOp' = Op("edit", task_id, "ok", 0)
                /\ warnings' = warnings + SaveWarnings(writable)
    /\ UNCHANGED <<player, history, writable, maxIssued, aliased>>

\* a filter that also drops the tasks with a lower id
RemoveIdOrLower(ts, task_id) == SelectSeq(ts, LAMBDA x : x.id > task_id)

\* tasks[:] = [x for x in tasks if x["id"] != task_id]
RemoveId(ts, task_id) == SelectSeq(ts, LAMBDA x : x.id # task_id)

\* a delete that also drops the deleted task's entries from the history
delete_task_purging(task_id) ==
    /\ tasks' = RemoveId(tasks, task_id)
    /\ history' = SelectSeq(history, LAMBDA h : h.id # task_id)
    /\ file' = SaveState(file, writable, State(player, tasks', history'))
    /\ lastOp' = Op("delete", task_id, "ok", Len(tasks) - Len(tasks'))
    /\ warnings' = warnings + SaveWarnings(writable)
    /\ UNCHANGED <<player, writable, maxIssued, aliased>>

\* a delete that rebinds tasks to the filtered list, so that the state
\* mapping it saves still holds the old list
delete_task_stale(task_id) ==
    /\ tasks' = RemoveId(tasks, task_id)
    /\ file' = SaveState(file, writable, State(player, tasks, history))
    /\ lastOp' = Op("delete", task_id, "ok", Len(tasks) - Len(tasks'))
    /\ warnings' = warnings + SaveWarnings(writable)
    /\ UNCHANGED <<player, history, writable, maxIssued, aliased>>

delete_task(task_id) ==
    /\ tasks' = RemoveId(tasks, task_id)
    /\ file' = SaveState(file, writable, State(player, tasks', history))
    /\ lastOp' = Op("delete", task_id, "ok", Len(tasks) - Len(tasks'))
    /\ warnings' = warnings + SaveWarnings(writable)
    /\ UNCHANGED <<player, history, writable, maxIssued, aliased>>

(***************************************************************************)
(* Progression engine.                                                     *)
(***************************************************************************)
\* required = player["level"] * 150
LevelFactor == 150

Required(level) == level * LevelFactor

\* a level-up loop that stops after one level
check_level_up_once(p) ==
    IF p.xp >= Required(p.level)
    THEN [p EXCEPT !.xp = p.xp - Required(p.level), !.level = p.level + 1]
    ELSE p

\* a level-up loop that charges the first level's price at every level
RECURSIVE check_level_up_flat(_)
check_level_up_flat(p) ==
    IF p.xp >= Required(p.level)
    THEN check_level_up_flat([p EXCEPT !.xp = p.xp - LevelFactor,
                                       !.level = p.level + 1])
    ELSE p

\* while player["xp"] >= required: xp -= required; level += 1; recompute
RECURSIVE check_level_up(_)
check_level_up(p) ==
    IF p.xp >= Required(p.level)
    THEN check_level_up([p EXCEPT !.xp = p.xp - Required(p.level),
                                  !.level = p.level + 1])
    ELSE p

\* a streak that also counts a second completion of the same day
StreakAfterDouble(p, now) ==
    IF p.last_active_date.tag = "None" THEN 1
    ELSE IF p.last_active_date.tag = "bad" THEN 1
    ELSE LET days == Today(now) - DateOf(p.last_active_date)
         IN  IF days = 0 \/ days = 1 THEN p.streak + 1 ELSE 1

\* lines 179-195: the streak after a completion made at clock reading now;
\* fromisoformat raising on the stored text is the "bad" case.  The calls of
\* date.today() and datetime.now() within one completion read the same
\* clock reading (no completion spans midnight).
StreakAfter(p, now) ==
    IF p.last_active_date.tag = "None" THEN 1
    ELSE IF p.last_active_date.tag = "bad" THEN 1
    ELSE LET days == Today(now) - DateOf(p.last_active_date)
         IN  IF days = 0 THEN p.streak
             ELSE IF days = 1 THEN p.streak + 1
             ELSE 1

InSeq(x, s) == \E i \in 1..Len(s) : s[i] = x

\* if random.randint(1, 4) == 1: badge = random.choice(badge_pool);
\* if badge["id"] not in player["badges"]: player["badges"].append(badge["id"])
\* roll is the randint draw, pick the index random.choice selects.
BadgeChance == 4

\* a badge award that does not look at the badges already held
AwardBadgeAlways(badges, roll, pick) ==
    IF roll = 1 THEN Append(badges, badge_pool[pick]) ELSE badges

AwardBadge(badges, roll, pick) ==
    IF roll = 1 /\ ~InSeq(badge_pool[pick], badges)
    THEN Append(badges, badge_pool[pick])
    ELSE badges

\* a completion that never looks at the done flag
AlreadyDoneIgnored(t) == FALSE

\* if t["done"]: "Task already completed."
AlreadyDone(t) == t.done

complete_task_by_id(task_id, now, roll, pick) ==
    /\ LET i == FindTask(tasks, task_id)
       IN  IF i = 0
           THEN /\ lastOp' = Op("complete", task_id, "NotFound", 0)
                /\ UNCHANGED <<player, tasks, history, file, warnings>>
           ELSE IF AlreadyDone(tasks[i])
           THEN /\ lastOp' = Op("complete", task_id, "AlreadyCompleted", 0)
                /\ UNCHANGED <<player, tasks, history, file, warnings>>
           ELSE /\ Len(history) < MaxHist
                /\ LET t == [tasks[i] EXCEPT !.done = TRUE,
                                             !.completed_at = IsoFormat(now)]
                       p1 == [player EXCEPT !.xp = player.xp + t.xp]
                       p2 == [p1 EXCEPT !.streak = StreakAfter(player, now),
                                        !.last_active_date = IsoFormat(now)]
                       p3 == [p2 EXCEPT !.badges = AwardBadge(p2.badges, roll, pick)]
                   IN  /\ tasks' = [tasks EXCEPT ![i] = t]
                       /\ history' = Append(history,
                              [id |-> t.id, title |-> t.title, xp |-> t.xp,
                               when |-> t.completed_at])
                       /\ player' = check_level_up(p3)
                /\ file' = SaveState(file, writable, State(player', tasks', history'))
                /\ lastOp' = Op("complete", task_id, "ok", 0)
                /\ warnings' = warnings + SaveWarnings(writable)
    /\ UNCHANGED <<writable, maxIssued, aliased>>

(***************************************************************************)
(* Inputs.                                                                 *)
(***************************************************************************)
Field(k, v) == [k |-> k, none |-> FALSE, v |-> v]

NoneField(k, v) == [k |-> k, none |-> TRUE, v |-> v]

\* the keyword arguments edit_task is called with
EditInputs ==
    { <<Field("title", "b")>>, <<Field("xp", 20)>>,
      <<Field("priority", "high"), Field("tags", <<"work">>), Field("notes", "n")>>,
      <<NoneField("title", ""), Field("color", "red")>>,
      <<Field("done", FALSE)>>,
      <<Field("completed_at", NoDate)>>,
      <<Field("created_at", IsoFormat(MaxTime))>> }
    \cup { <<Field("id", n)>> : n \in 0..MaxTasks }

\* the clock readings add_task is called at
AddTimes == {0}

\* the largest streak a save file found at start holds
MaxLoadedStreak == 2

\* the player of a save file found at start: any streak and stored date
LoadedPlayers ==
    { [DefaultPlayer EXCEPT !.streak = n, !.last_active_date = d] :
        n \in 0..MaxLoadedStreak,
        d \in {NoDate, BadDate} \cup {IsoFormat(t) : t \in Times} }

\* the clock readings complete_task_by_id is called at in the sessions of
\* Spec: two readings MaxTime \div TicksPerDay days apart
CompleteTimes == {0, MaxTime}

\* the draws of random.choice in the sessions of Spec
Picks == {1}

\* the state mapping as it is now
Cur == State(player, tasks, history)

\* what default_state holds now: under the keys the state shares with it,
\* the objects the operations have been mutating
DefaultNow ==
    [k \in DOMAIN default_state |->
       IF k \in aliased THEN Cur[k] ELSE default_state[k]]

\* state = load_state() at import, then the first save_state of __main__;
\* f0 is the save file found at start, w whether the file can be written.
InitFrom(f0, w) ==
    /\ player = LoadState(f0).player
    /\ tasks = LoadState(f0).tasks
    /\ history = LoadState(f0).history
    /\ writable = w
    /\ file = SaveState(f0, w, LoadState(f0))
    /\ aliased = SharedKeys(f0)
    /\ warnings = SaveWarnings(w)
    /\ lastOp = Op("start", 0, "ok", 0)
    /\ maxIssued = 0
    /\ ops = 0

\* a first run: no save file yet
Init == InitFrom(<<>>, TRUE)

AddWith(titles, xps, times) ==
    \E title \in titles, xp \in xps, now \in times : add_task(title, xp, now)

EditWith(ids, inputs) ==
    \E task_id \in ids, fields \in inputs : edit_task(task_id, fields)

DeleteWith(ids) == \E task_id \in ids : delete_task(task_id)

CompleteWith(ids, times, rolls, picks) ==
    \E task_id \in ids, now \in times, roll \in rolls, pick \in picks :
        complete_task_by_id(task_id, now, roll, pick)

AddTask == AddWith(Titles, XPVals, AddTimes)

EditTask == EditWith(IdArgs, EditInputs)

DeleteTask == DeleteWith(IdArgs)

CompleteTask == CompleteWith(IdArgs, CompleteTimes, {1, BadgeChance}, Picks)

\* one more operation of a session of at most limit operations
Counted(limit) == ops < limit /\ ops' = ops + 1

Next ==
    \/ AddTask /\ Counted(MaxOps)
    \/ EditTask /\ Counted(MaxOps)
    \/ DeleteTask /\ Counted(MaxOps)
    \/ CompleteTask /\ Counted(MaxOps)

Spec == Init /\ [][Next]_vars

\* Sessions that start from a save file with some player in it and add and
\* complete tasks.
InitStreak ==
    \E p \in LoadedPlayers : InitFrom(<<Dump(State(p, <<>>, <<>>))>>, TRUE)

NextStreak ==
    \/ AddWith({"a"}, {320}, AddTimes) /\ Counted(MaxOps)
    \/ CompleteWith(IdArgs, Times, {BadgeChance}, {1}) /\ Counted(MaxOps)

SpecStreak == InitStreak /\ [][NextStreak]_vars

\* Sessions of add_task and delete_task alone.
NextAddDelete ==
    \/ AddTask /\ Counted(MaxOpsDeep)
    \/ DeleteTask /\ Counted(MaxOpsDeep)

SpecAddDelete == Init /\ [][NextAddDelete]_vars

\* Longer sessions in which edit_task is given an id field.
IdEdits == { <<Field("id", n)>> : n \in 0..MaxTasks }

NextIds ==
    \/ AddWith({"a"}, {320}, AddTimes) /\ Counted(MaxOpsDeep)
    \/ EditWith(IdArgs, IdEdits) /\ Counted(MaxOpsDeep)
    \/ CompleteWith(IdArgs, {0}, {BadgeChance}, {1}) /\ Counted(MaxOpsDeep)

SpecIds == Init /\ [][NextIds]_vars

\* Sessions that start from any save file, writable or not.
\* A save file an earlier session left: one completed task worth 20 XP.
SavedSample ==
    State([DefaultPlayer EXCEPT !.xp = 20, !.streak = 1,
                                !.last_active_date = IsoFormat(0)],
          << [NewTask(<<>>, "a", 20, "medium", <<>>, "", 0)
                EXCEPT !.done = TRUE, !.completed_at = IsoFormat(0)] >>,
          << [id |-> 1, title |-> "a", xp |-> 20, when |-> IsoFormat(0)] >>)

\* text json.load rejects
Garbage == [valid |-> FALSE, data |-> <<>>]

\* the save file found at start: absent, unreadable, or SavedSample with any
\* of its top-level keys left out
StartFiles ==
    {<<>>, <<Garbage>>}
    \cup { << [valid |-> TRUE,
               data |-> [k \in K |-> Dump(SavedSample).data[k]]] >> :
              K \in SUBSET DOMAIN default_state }

InitIO == \E f0 \in StartFiles, w \in BOOLEAN : InitFrom(f0, w)

NextIO ==
    \/ AddWith({"a"}, XPVals, AddTimes) /\ Counted(MaxOps)
    \/ EditWith(IdArgs, {<<Field("title", "b")>>, <<Field("done", FALSE)>>})
          /\ Counted(MaxOps)
    \/ DeleteTask /\ Counted(MaxOps)
    \/ CompleteWith(IdArgs, {MaxTime}, {BadgeChance}, {1}) /\ Counted(MaxOps)

SpecIO == InitIO /\ [][NextIO]_vars

\* Sessions in which a completion draws any badge of the pool, and a task
\* can be reopened by edit_task or deleted and completed again.
NextBadges ==
    \/ AddWith({"a"}, {320}, AddTimes) /\ Counted(MaxOpsDeep)
    \/ EditWith(IdArgs, {<<Field("done", FALSE)>>}) /\ Counted(MaxOpsDeep)
    \/ DeleteTask /\ Counted(MaxOpsDeep)
    \/ CompleteWith(IdArgs, {0}, {1, BadgeChance}, 1..Len(badge_pool))
          /\ Counted(MaxOpsDeep)

SpecBadges == Init /\ [][NextBadges]_vars

\* Sessions of add_task, delete_task and complete_task_by_id.
NextLife ==
    \/ AddWith({"a"}, {320}, AddTimes) /\ Counted(MaxOpsDeep)
    \/ DeleteTask /\ Counted(MaxOpsDeep)
    \/ CompleteWith(IdArgs, {0}, {BadgeChance}, {1}) /\ Counted(MaxOpsDeep)

SpecLife == Init /\ [][NextLife]_vars

(***************************************************************************)
(* Properties.                                                             *)
(***************************************************************************)
\* the step is a call of operation op (every call counts one operation)
Called(op) == ops' # ops /\ lastOp'.op = op

Succeeded(op) == Called(op) /\ lastOp'.outcome = "ok"

RECURSIVE SumXp(_)
SumXp(h) == IF h = <<>> THEN 0 ELSE Head(h).xp + SumXp(Tail(h))

\* C1: a completeTask call that directly follows a successful completeTask
\* of the same id reports "already completed" and leaves the player, the
\* tasks and the history as the first call left them: one award, one entry.
C1_SecondCompleteNoEffect ==
    [][(lastOp.op = "complete" /\ lastOp.outcome = "ok"
          /\ Called("complete") /\ lastOp'.id = lastOp.id)
       => (lastOp'.outcome = "AlreadyCompleted"
             /\ player' = player /\ tasks' = tasks /\ history' = history)]_vars

\* two completeTask calls in a row on the task just added: the second was
\* refused and the history holds the one entry of the first
C1_Witness ==
    /\ ops = 3 /\ lastOp.op = "complete" /\ lastOp.outcome = "AlreadyCompleted"
    /\ Len(history) = 1 /\ SumXp(history) = 320

\* C3: with non-negative rewards, after every operation
\* 0 <= player.xp < player.level * 150.
C3_XpBelowThreshold ==
    (\A i \in 1..Len(history) : history[i].xp >= 0)
    => (0 <= player.xp /\ player.xp < player.level * 150)

\* one completion worth 450 XP paid for two levels
C3_Witness ==
    /\ lastOp.op = "complete" /\ lastOp.outcome = "ok"
    /\ Len(history) = 1 /\ history[1].xp = 450 /\ player.level = 3

\* 150 * (1 + 2 + ... + (level - 1)): the XP the levels below level cost
LevelsCost(level) == 75 * level * (level - 1)

\* C4: the XP of all history entries equals player.xp plus the sum of
\* 150 * L over the levels L below player.level.
C4_XpConserved == SumXp(history) = player.xp + LevelsCost(player.level)

\* two completions of 320 XP, the second crossing a level with the XP left
\* over from the first
C4_Witness ==
    /\ Len(history) = 2 /\ SumXp(history) = 640
    /\ player.level = 3 /\ player.xp = 190

\* C5: a successful completeTask leaves the (level, xp) that repeated
\* subtraction of level * 150 reaches from xp + reward: the XP is conserved
\* across the levels bought, no level is lost, and no further level-up is
\* due; from level 1, xp 0 a reward of 320 gives level 2, xp 170.
C5_LevelUpToFixpoint ==
    [][Succeeded("complete") =>
         LET reward == history'[Len(history')].xp
         IN  /\ player'.level >= player.level
             /\ player'.xp + LevelsCost(player'.level)
                  = player.xp + reward + LevelsCost(player.level)
             /\ 0 <= player'.xp /\ player'.xp < player'.level * 150
             /\ (player.level = 1 /\ player.xp = 0 /\ reward = 320)
                  => (player'.level = 2 /\ player'.xp = 170)]_vars

\* the 320 XP completion from the default player
C5_Witness ==
    /\ lastOp.op = "complete" /\ lastOp.outcome = "ok"
    /\ Len(history) = 1 /\ history[1].xp = 320
    /\ player.level = 2 /\ player.xp = 170

C2_FailedCompleteNoEffect ==
    [][(Called("complete")
          /\ \/ \A i \in 1..Len(tasks) : tasks[i].id # lastOp'.id
             \/ \E i \in 1..Len(tasks) : tasks[i].id = lastOp'.id /\ tasks[i].done)
       => (lastOp'.outcome \in {"NotFound", "AlreadyCompleted"}
             /\ UNCHANGED <<player, tasks, history, file>>)]_vars

\* C7: every id add hands out is greater than every id add handed out
\* before, over sessions of add and delete alone.
C7_IssuedIdsIncrease ==
    [][Called("add") => lastOp'.id > maxIssued]_vars

\* C8: every task id in the registry is positive and no two tasks share one.
C8_IdsPositiveUnique ==
    /\ \A i \in 1..Len(tasks) : tasks[i].id > 0
    /\ \A i, j \in 1..Len(tasks) : tasks[i].id = tasks[j].id => i = j

\* the task at position i before the step is, after it, done with the same
\* completed_at
StaysDone(i) ==
    /\ i <= Len(tasks')
    /\ tasks'[i].done
    /\ tasks'[i].completed_at = tasks[i].completed_at

\* C9: a done task stays done, with its completed_at, across every add,
\* edit and completeTask and across every delete of another id.
C9_DoneIsOneWay ==
    [][\A i \in 1..Len(tasks) : tasks[i].done =>
         IF Called("delete")
         THEN tasks[i].id # lastOp'.id =>
                \E j \in 1..Len(tasks') :
                    /\ tasks'[j].done
                    /\ tasks'[j].id = tasks[i].id
                    /\ tasks'[j].completed_at = tasks[i].completed_at
         ELSE StaysDone(i)]_vars

\* C10: edit leaves the id, done, created_at and completed_at of the task it
\* addresses, every other task, the player and the history unchanged.
C10_EditFrame ==
    [][Called("edit") =>
         /\ player' = player /\ history' = history
         /\ Len(tasks') = Len(tasks)
         /\ \A i \in 1..Len(tasks) :
               IF i = FindTask(tasks, lastOp'.id)
               THEN /\ tasks'[i].id = tasks[i].id
                    /\ tasks'[i].done = tasks[i].done
                    /\ tasks'[i].created_at = tasks[i].created_at
                    /\ tasks'[i].completed_at = tasks[i].completed_at
               ELSE tasks'[i] = tasks[i]]_vars

\* the indices of the tasks that do not have id task_id
Kept(ts, task_id) == {i \in 1..Len(ts) : ts[i].id # task_id}

\* the n-th smallest element of the set of numbers S
Nth(S, n) == CHOOSE i \in S : Cardinality({k \in S : k <= i}) = n

C12_EmptyTitleRejected ==
    [][Called("add") =>
         /\ lastOp'.outcome = "ok" => tasks'[Len(tasks')].title # ""
         /\ \A i \in 1..Len(tasks') : tasks'[i].title # ""]_vars

\* C13: the history only grows at its end: a successful completeTask
\* appends one entry with the id, title and xp the task had and the
\* completion timestamp; every other call leaves the history unchanged.
C13_HistoryAppendOnly ==
    [][IF Succeeded("complete")
       THEN LET i == FindTask(tasks, lastOp'.id)
            IN  /\ Len(history') = Len(history) + 1
                /\ SubSeq(history', 1, Len(history)) = history
                /\ history'[Len(history')] =
                     [id |-> tasks[i].id, title |-> tasks[i].title,
                      xp |-> tasks[i].xp, when |-> tasks'[i].completed_at]
                /\ tasks'[i].completed_at.tag = "iso"
       ELSE history' = history]_vars

\* a completed task was deleted and its history entry is still there
C13_Witness ==
    /\ lastOp.op = "delete" /\ lastOp.count = 1
    /\ Len(tasks) = 0 /\ Len(history) = 1 /\ history[1].id = lastOp.id

\* the state mapping read back from the text of a save file
ReadBack(f) == [k \in DOMAIN f[1].data |-> ValueOfJson(k, f[1].data[k])]

\* C14: when the file can be written, every successful add, edit, delete
\* and completeTask returns with the save file holding the whole in-memory
\* state.
C14_FlushedOnReturn ==
    [][(ops' # ops /\ lastOp'.outcome = "ok" /\ writable) =>
         /\ file' # <<>> /\ file'[1].valid
         /\ ReadBack(file') = State(player', tasks', history')]_vars

\* a delete was flushed: the file holds the registry without the task
C14_Witness ==
    /\ writable /\ lastOp.op = "delete" /\ lastOp.count = 1
    /\ file # <<>> /\ ReadBack(file).tasks = tasks /\ Len(history) = 1

\* C15: whenever the save file is absent or unreadable, load_state returns
\* the fresh default state, whatever the session has done before.
C15_LoadFresh ==
    (file = <<>> \/ ~file[1].valid) => LoadFrom(file, DefaultNow) = default_state

C17_SaveFailureDegrades ==
    [][(ops' # ops /\ ~writable) =>
         /\ file' = file
         /\ Called("add") => Len(tasks') = Len(tasks) + 1
         /\ Succeeded("complete") => Len(history') = Len(history) + 1
         /\ warnings' <= 1]_vars

\* the badge list b holds no identifier twice and only identifiers of the
\* five-badge pool
BadgesWellFormed(b) ==
    /\ \A i, j \in 1..Len(b) : b[i] = b[j] => i = j
    /\ \A i \in 1..Len(b) :
          b[i] \in {"focus_warrior", "deadline_crusher", "consistency_pro",
                    "task_master", "productivity_ninja"}

\* C18: the badges never hold a duplicate or an identifier outside the pool;
\* a successful completeTask leaves them as they were or appends one badge
\* not yet held; no other call changes them.
C18_BadgesSet ==
    [][/\ BadgesWellFormed(player.badges)
       /\ BadgesWellFormed(player'.badges)
       /\ IF Succeeded("complete")
          THEN \/ player'.badges = player.badges
               \/ /\ Len(player'.badges) = Len(player.badges) + 1
                  /\ SubSeq(player'.badges, 1, Len(player.badges)) = player.badges
          ELSE player'.badges = player.badges]_vars

\* two completions, each with a badge draw as far as the history tells, and
\* one badge held: the second completion added none
C18_Witness ==
    /\ lastOp.op = "complete" /\ lastOp.outcome = "ok"
    /\ Len(history) = 2 /\ Len(player.badges) = 1

\* C19: every task of the registry has completed_at set exactly when it is
\* done.
C19_CompletedAtIffDone ==
    \A i \in 1..Len(tasks) : (tasks[i].completed_at.tag # "None") <=> tasks[i].done

\* C20: no two history entries carry the same task id.
C20_OneCompletionPerId ==
    \A i, j \in 1..Len(history) : history[i].id = history[j].id => i = j
====
